---- MODULE Spec2Model ----
(***************************************************************************)
(* Storage engine of evgenyim/local-storage (src/storage.h, third and last *)
(* revision in the file, lines 157-367): PersistentStorage, the key index  *)
(* backed by the text append log data.log, and Storage, the segmented      *)
(* value log str_data_<id> that uses a PersistentStorage as its index.     *)
(* The server (src/server.cpp) owns one Storage and one PersistentStorage  *)
(* of its own for put_number; both indexes open the file data.log.         *)
(*                                                                         *)
(* Files are modelled with the bytes the program wrote to them and the     *)
(* length of the prefix that an fsync has made durable.  A key, a value    *)
(* and the text of data.log are sequences of one-character strings.        *)
(***************************************************************************)
EXTENDS Integers, Sequences, FiniteSets, TLC

\* ------------------------------------------------------------------ bounds
\* Storage::max_size is 32 MiB in the source; the model scales it down so
\* that one or two records fill a segment.
max_size == 18
\* Puts issued in one run of the model (all sessions together).
MaxPuts == 2
\* Shutdowns and crashes in one run of the model.
MaxRestarts == 1
\* Segment files on disk (caps next_file_id).
MaxFiles == 3

\* sizeof(uint64_t), the width of a length prefix in a segment file.
SizeofU64 == 8

Keys == {<<>>, <<"a">>}
Values == {<<"x">>, <<"y">>}

\* What a read of bytes that are not there (or not a record) yields.
Garbage == <<"?">>
\* find's nullptr.
nullptr == -1

\* ------------------------------------------------------------ text helpers
Digits == <<"0", "1", "2", "3", "4", "5", "6", "7", "8", "9">>

IsDigit(c) == \E d \in 1..10 : Digits[d] = c

DigitVal(c) == (CHOOSE d \in 1..10 : Digits[d] = c) - 1

\* std::to_string(uint64_t)
RECURSIVE to_string(_)
to_string(n) ==
    IF n < 10 THEN <<Digits[n + 1]>>
    ELSE to_string(n \div 10) \o <<Digits[(n % 10) + 1]>>

\* value of a run of decimal digits, as operator>>(uint64_t&) reads it
RECURSIVE StrToNat(_)
StrToNat(ds) ==
    IF ds = <<>> THEN 0
    ELSE StrToNat(SubSeq(ds, 1, Len(ds) - 1)) * 10 + DigitVal(ds[Len(ds)])

\* first index >= i of s that holds no blank (Len(s)+1 at the end of s)
SkipWs(s, i) ==
    CHOOSE j \in i..(Len(s) + 1) :
        /\ \A t \in i..(j - 1) : s[t] = " "
        /\ (j = Len(s) + 1 \/ s[j] # " ")

\* first index >= i of s that holds a blank (Len(s)+1 at the end of s)
TokenEnd(s, i) ==
    CHOOSE j \in i..(Len(s) + 1) :
        /\ \A t \in i..(j - 1) : s[t] # " "
        /\ (j = Len(s) + 1 \/ s[j] = " ")

\* first index >= i of s that holds no digit (Len(s)+1 at the end of s)
DigitsEnd(s, i) ==
    CHOOSE j \in i..(Len(s) + 1) :
        /\ \A t \in i..(j - 1) : IsDigit(s[t])
        /\ (j = Len(s) + 1 \/ ~IsDigit(s[j]))

\* m[k] = v, as std::unordered_map::operator[] assignment
Assign(m, k, v) == [x \in (DOMAIN m) \cup {k} |-> IF x = k THEN v ELSE m[x]]

EmptyMap == [x \in {} |-> 0]

\* all orders in which a set can be enumerated (unordered_map iteration)
Orders(S) ==
    {o \in [1..Cardinality(S) -> S] : \A i, j \in 1..Cardinality(S) : o[i] = o[j] => i = j}

\* ------------------------------------------------------ PersistentStorage
\* the record write_to_disk formats: key + " " + to_string(value) + " "
to_write(key, value) == key \o <<" ">> \o to_string(value) \o <<" ">>

\* while (f >> key >> value) _storage[key] = value;  from position i on
RECURSIVE ParseFrom(_, _, _)
ParseFrom(s, i, m) ==
    LET ks == SkipWs(s, i)
        ke == TokenEnd(s, ks)
        vs == SkipWs(s, ke)
        ve == DigitsEnd(s, vs)
    IN  IF ks > Len(s) THEN m                      \* f >> key fails at EOF
        ELSE IF ve = vs THEN m                     \* f >> value fails
        ELSE ParseFrom(s, ve, Assign(m, SubSeq(s, ks, ke - 1),
                                     StrToNat(SubSeq(s, vs, ve - 1))))

\* for (auto &it : _storage) f_rewrite << it.first << " " << it.second << " ";
RECURSIVE Snapshot(_, _)
Snapshot(m, order) ==
    IF order = <<>> THEN <<>>
    ELSE to_write(order[1], m[order[1]]) \o Snapshot(m, Tail(order))

\* fprintf(file, ...) + fflush(file): the bytes reach the file, not the disk
fprintf(log, key, value) == [log EXCEPT !.data = @ \o to_write(key, value)]

\* not_confirmed.push({key, value})
push(ps, key, value) ==
    [ps EXCEPT !.not_confirmed = Append(@, <<key, value>>)]

\* PersistentStorage::write_to_disk; ok is "fprintf wrote the whole record"
write_to_disk(ps, log, key, value, ok) ==
    IF ok THEN [ps |-> push(ps, key, value), log |-> fprintf(log, key, value), res |-> TRUE]
    ELSE [ps |-> ps, log |-> log, res |-> FALSE]

\* what the caller of a void function receives
NoRet == <<"~">>

\* put as the revision before the pending queue had it: visible at once
put_visible(ps, log, key, value, ok) ==
    LET w == write_to_disk(ps, log, key, value, ok)
    IN  [ps |-> IF w.res THEN [w.ps EXCEPT !._storage = Assign(@, key, value)] ELSE w.ps,
         log |-> w.log, res |-> NoRet]

\* PersistentStorage::put is void: the result of write_to_disk is dropped
put(ps, log, key, value, ok) ==
    LET w == write_to_disk(ps, log, key, value, ok)
    IN  [ps |-> w.ps, log |-> w.log, res |-> NoRet]

\* PersistentStorage::find
find(ps, key) == IF key \in DOMAIN ps._storage THEN ps._storage[key] ELSE nullptr

\* a drain that pops without storing
drain_none(m, q) == m

\* a drain that takes the newest entry first, so that the oldest is stored last
RECURSIVE drain_lifo(_, _)
drain_lifo(m, q) ==
    IF q = <<>> THEN m
    ELSE drain_lifo(Assign(m, q[Len(q)][1], q[Len(q)][2]), SubSeq(q, 1, Len(q) - 1))

\* the loop of PersistentStorage::sync: front() into _storage, pop()
RECURSIVE drain(_, _)
drain(m, q) ==
    IF q = <<>> THEN m
    ELSE drain(Assign(m, q[1][1], q[1][2]), Tail(q))

\* fsync(fd): on success everything written so far is durable
fsync(f, ok) == IF ok THEN [f EXCEPT !.synced = Len(f.data)] ELSE f

\* a sync that moves the front of the queue only
sync_drain_first(ps) ==
    IF ps.not_confirmed = <<>> THEN ps
    ELSE [_storage |-> Assign(ps._storage, ps.not_confirmed[1][1], ps.not_confirmed[1][2]),
          not_confirmed |-> Tail(ps.not_confirmed)]

\* PersistentStorage::sync after its fsync call returned (the result is not read)
sync_drain(ps) ==
    [_storage |-> drain(ps._storage, ps.not_confirmed), not_confirmed |-> <<>>]

\* PersistentStorage::load_from_disk: read data.log, then rewrite it compacted
load_from_disk_map(log) == ParseFrom(log.data, 1, EmptyMap)

\* std::ofstream f_rewrite(filename) truncates; nothing of the new text is durable
rewrite(m, order) == [data |-> Snapshot(m, order), synced |-> 0]

\* ---------------------------------------------------------------- Storage
\* A segment file is a sequence of cells: a length prefix (sizeof(uint64_t)
\* bytes holding n) or one byte of a key or a value.
LenCell(n) == [len |-> TRUE, n |-> n, c |-> " "]
ByteCell(ch) == [len |-> FALSE, n |-> 0, c |-> ch]

CellBytes(cell) == IF cell.len THEN SizeofU64 ELSE 1

\* number of bytes a sequence of cells takes in the file
RECURSIVE Bytes(_)
Bytes(cells) ==
    IF cells = <<>> THEN 0
    ELSE CellBytes(cells[Len(cells)]) + Bytes(SubSeq(cells, 1, Len(cells) - 1))

ToCells(str) == [i \in 1..Len(str) |-> ByteCell(str[i])]
FromCells(cells) == [i \in 1..Len(cells) |-> cells[i].c]

\* the four fwrite calls of write_to_log
Record(key, value) ==
    <<LenCell(Len(key))>> \o ToCells(key) \o <<LenCell(Len(value))>> \o ToCells(value)

EmptyFile == [data |-> <<>>, synced |-> 0]

\* the fread calls that decode one record starting at cell idx (0: no cell
\* starts at the byte that was asked for).  A read that runs into the end of
\* the file or into bytes that are no length prefix decodes nothing.
ReadAt(cells, idx) ==
    LET n == Len(cells)
        kOk == idx >= 1 /\ idx <= n /\ cells[idx].len
        klen == IF kOk THEN cells[idx].n ELSE 0
        vi == idx + klen + 1
        vOk == kOk /\ vi <= n /\ cells[vi].len
                   /\ \A t \in (idx + 1)..(vi - 1) : ~cells[t].len
        vlen == IF vOk THEN cells[vi].n ELSE 0
        ok == vOk /\ vi + vlen <= n /\ \A t \in (vi + 1)..(vi + vlen) : ~cells[t].len
    IN  [ok |-> ok,
         key |-> IF ok THEN FromCells(SubSeq(cells, idx + 1, vi - 1)) ELSE Garbage,
         value |-> IF ok THEN FromCells(SubSeq(cells, vi + 1, vi + vlen)) ELSE Garbage,
         size |-> 2 * SizeofU64 + klen + vlen,
         next |-> vi + vlen + 1]

\* fseek(f, file_offset, SEEK_SET): the cell that starts at that byte, or 0
CellIndex(cells, off) ==
    IF \E i \in 1..(Len(cells) + 1) : Bytes(SubSeq(cells, 1, i - 1)) = off
    THEN CHOOSE i \in 1..(Len(cells) + 1) : Bytes(SubSeq(cells, 1, i - 1)) = off
    ELSE 0

\* the virtual offset write_to_log stores for a record of the active segment
VirtualOffset(nfid, offset) == (nfid - 1) * max_size + offset

\* if (offset >= max_size) in write_to_log
NeedsRotation_never(offset) == FALSE
NeedsRotation_strict(offset) == offset > max_size
NeedsRotation(offset) == offset >= max_size

\* Storage::open_new_file: "w+b" creates (or empties) file next_file_id
open_new_file(st) ==
    LET id == st.next_file_id
        n == IF Len(st.files) > id THEN Len(st.files) ELSE id + 1
    IN  [st EXCEPT !.files = [i \in 1..n |-> IF i = id + 1 THEN EmptyFile ELSE st.files[i]],
                   !.next_file_id = id + 1]

\* ftell(file) of the active segment, whose write position is its end
ftell(st) == Bytes(st.files[st.next_file_id].data)

\* Storage::write_to_log; ok is the outcome of the index's fprintf
write_to_log(st, key, value, ok) ==
    LET rot == NeedsRotation(ftell(st))
        s1 == IF rot THEN open_new_file(st) ELSE st
        offset == IF rot THEN 0 ELSE ftell(st)
        s2 == [s1 EXCEPT !.files[s1.next_file_id].data = @ \o Record(key, value)]
        p == put(s2.map, s2.log, key, VirtualOffset(s2.next_file_id, offset), ok)
    IN  [s2 EXCEPT !.map = p.ps, !.log = p.log]

\* Storage::get_from_log
get_from_log(st, offset) ==
    LET file_id == offset \div max_size
        file_offset == offset % max_size
    IN  IF file_id + 1 > Len(st.files) THEN Garbage        \* fopen gave no file
        ELSE LET r == ReadAt(st.files[file_id + 1].data,
                             CellIndex(st.files[file_id + 1].data, file_offset))
             IN  IF r.ok THEN r.value ELSE Garbage

NotFound == <<"-">>

\* Storage::get: NotFound for false, else the value it stores in *value
get(st, key) ==
    LET offset == find(st.map, key)
    IN  IF offset = nullptr THEN NotFound ELSE get_from_log(st, offset)

\* lines 305-311 of load_from_disk: is the decoded record written again?
Keep_orphan(saved, file_id, i, offset) ==
    IF saved = nullptr THEN TRUE ELSE saved = file_id * max_size + offset
Keep(saved, file_id, i, offset) ==
    IF saved = nullptr THEN FALSE ELSE saved = file_id * max_size + offset

\* the while (true) loop of load_from_disk over segment i, from cell idx on.
\* clobber: fread(&size, sizeof(uint64_t), 1, f) stores 8 bytes into the
\* 4-byte int size; in a build that lays offset out behind size the upper
\* half of the length (zero) lands in offset.
\* st.trace collects, for every record decoded, <<i, the byte of the file at
\* which the record starts, the value of offset when line 310 reads it>>.
RECURSIVE ScanFile(_, _, _, _, _, _, _)
ScanFile(st, file_id, i, idx, offset, ok, clobber) ==
    LET r == ReadAt(st.files[i + 1].data, idx)
        off == IF clobber THEN 0 ELSE offset
        t == [st EXCEPT !.trace =
                 @ \cup {<<i, Bytes(SubSeq(st.files[i + 1].data, 1, idx - 1)), off>>}]
        saved == find(t.map, r.key)
        kept == Keep(saved, file_id, i, off)
        w == write_to_log(t, r.key, r.value, ok)
        p == put(w.map, w.log, r.key, VirtualOffset(w.next_file_id, off), ok)
        s1 == IF kept THEN [w EXCEPT !.map = p.ps, !.log = p.log] ELSE t
    IN  IF ~r.ok THEN st                                   \* s == 0: break
        ELSE IF saved = nullptr /\ ~kept
             THEN ScanFile(t, file_id, i, r.next, off, ok, clobber)    \* continue
        ELSE IF off + r.size >= max_size THEN s1           \* break
        ELSE ScanFile(s1, file_id, i, r.next, off + r.size, ok, clobber)

\* for (int i = 0; i < file_id; i++) of load_from_disk
RECURSIVE ScanFiles(_, _, _, _, _)
ScanFiles(st, file_id, i, ok, clobber) ==
    IF i >= file_id THEN st
    ELSE ScanFiles(ScanFile(st, file_id, i, 1, 0, ok, clobber), file_id, i + 1, ok, clobber)

\* Storage::load_from_disk, on the files found on disk
load_from_disk(st, ok, clobber) ==
    LET file_id == Len(st.files)
        s1 == open_new_file([st EXCEPT !.next_file_id = file_id])
    IN  ScanFiles(s1, file_id, 0, ok, clobber)

TotalBytes(fs) ==
    LET RECURSIVE Sum(_)
        Sum(i) == IF i = 0 THEN 0 ELSE Bytes(fs[i].data) + Sum(i - 1)
    IN  Sum(Len(fs))

\* keys of the records a sequential read of a segment decodes, from cell idx on
RECURSIVE KeysIn(_, _)
KeysIn(cells, idx) ==
    LET r == ReadAt(cells, idx)
    IN  IF r.ok THEN {r.key} \cup KeysIn(cells, r.next) ELSE {}

\* byte offsets at which the records of a segment start, from cell idx on
RECURSIVE RecordStarts(_, _)
RecordStarts(cells, idx) ==
    LET r == ReadAt(cells, idx)
    IN  IF r.ok THEN {Bytes(SubSeq(cells, 1, idx - 1))} \cup RecordStarts(cells, r.next)
        ELSE {}

\* ------------------------------------------------------------------ state
VARIABLES
    files,          \* str_data_<i-1> is files[i]: [data: cells written, synced: durable cells]
    dataLog,        \* data.log: [data: characters written, synced: durable characters]
    map,            \* Storage::map: [_storage, not_confirmed]
    storage_,       \* the server's own PersistentStorage: [_storage, not_confirmed]
    next_file_id,   \* Storage::next_file_id
    up,             \* the process runs (the objects are constructed)
    op,             \* the operation that ran last
    ret,            \* what the last get returned
    fsyncOk,        \* whether every fsync of the last sync reported success
    nputs,          \* puts issued so far
    nrestarts,      \* shutdowns and crashes so far
    hist,           \* per key: the puts (value, record location) of this session
                    \*   since the sync before its last confirmed one
    confirmed,      \* keys whose last put was followed by a successful sync
    clean,          \* a successful sync ran and no put was issued since (restarts aside)
    snap,           \* what get and find returned when the process went down clean
    bytesBefore,    \* bytes in segment files when the process went down
    orphans,        \* keys found without index entry by the last recovery, not put since
    scanned,        \* number of segment files the last recovery found on disk
    scanTrace,      \* per record the last recovery decoded: <<segment, byte at which
                    \*   it starts, running offset the recovery used for it>>
    pcPut,          \* per request thread: where it is in PersistentStorage::put
    argPut,         \* per request thread: the (key, value) it is putting
    pcSync,         \* where the sync thread is in PersistentStorage::sync
    pendPos,        \* per entry of not_confirmed: where its record ends in data.log
    visPos,         \* per key of _storage: where the record it came from ends in data.log
    pcGet,          \* where the thread that calls Storage::get is
    ptrGet,         \* the pointer find returned to it: the key of the slot, the value
                    \*   find saw under the lock, whether sync wrote the slot since
    vo,             \* a virtual offset on its way through put and get: the segment
                    \*   id and byte offset put has, the uint64_t it stores, and
                    \*   the (file_id, file_offset) get computes from it
    srv,            \* the server: where put_requests_thread stands, the responses in
                    \*   states_put_requests, those in the connection's output_queue,
                    \*   and the key of the request handled last
    ever            \* history: the (key, value) pairs handed to Storage::put and the
                    \*   (key, location) pairs handed to storage_.put since the
                    \*   directory was empty

engineVars == <<files, storage_, next_file_id, up, fsyncOk, nrestarts, hist, confirmed, clean,
                snap, bytesBefore, orphans, scanned, scanTrace, vo, srv, ever>>
readerVars == <<pcGet, ptrGet>>
threadVars == <<pcPut, argPut, pcSync, pendPos, visPos, pcGet, ptrGet>>
vars == <<files, dataLog, map, storage_, next_file_id, up, op, ret, fsyncOk, nputs, nrestarts,
          hist, confirmed, clean, snap, bytesBefore, orphans, scanned, scanTrace,
          pcPut, argPut, pcSync, pendPos, visPos, pcGet, ptrGet, vo, srv, ever>>

St == [files |-> files, next_file_id |-> next_file_id, map |-> map, log |-> dataLog]

\* not_confirmed holds a write of key k
Pending(k) == \E i \in 1..Len(map.not_confirmed) : map.not_confirmed[i][1] = k

NoSnap == [get |-> <<>>, find |-> <<>>, taken |-> FALSE]
NoMap == [_storage |-> EmptyMap, not_confirmed |-> <<>>]
NoPtr == [key |-> <<>>, seen |-> nullptr, written |-> FALSE]
NoSrv == [pc |-> "sync", q |-> <<>>, out |-> <<>>, key |-> <<>>]
NoEver == [put |-> {}, number |-> {}]
NoVo == [seg |-> 0, off |-> 0, stored |-> nullptr, decoded |-> <<>>]

\* request threads that call PersistentStorage::put concurrently
NumThreads == 2
Threads == 1..NumThreads
\* locations handed to PersistentStorage::put directly (put_number)
Locs == {1, max_size}
MaxLoc == max_size
\* a uint64_t read while it was being written
Torn == <<"torn", 0>>

\* the state after the constructors ran on an empty directory
InitEngine ==
    /\ files = <<EmptyFile>>
    /\ dataLog = [data |-> <<>>, synced |-> 0]
    /\ map = NoMap
    /\ storage_ = NoMap
    /\ next_file_id = 1
    /\ up = TRUE
    /\ op = "init"
    /\ ret = NoRet
    /\ fsyncOk = TRUE
    /\ nputs = 0
    /\ nrestarts = 0
    /\ hist = [k \in Keys |-> <<>>]
    /\ confirmed = {}
    /\ clean = FALSE
    /\ snap = NoSnap
    /\ bytesBefore = 0
    /\ orphans = {}
    /\ scanned = 0
    /\ scanTrace = {}
    /\ pcPut = [t \in Threads |-> "idle"]
    /\ argPut = [t \in Threads |-> <<>>]
    /\ pcSync = "idle"
    /\ pendPos = <<>>
    /\ visPos = EmptyMap
    /\ pcGet = "idle"
    /\ ptrGet = NoPtr
    /\ srv = NoSrv
    /\ ever = NoEver

Init == InitEngine /\ vo = NoVo

\* ------------------------------------------- the engine, one call at a time
\* Storage::put(key, value), with an fprintf of the index that writes the
\* whole record
Put(key, value) ==
    /\ up
    /\ nputs < MaxPuts
    /\ NeedsRotation(ftell(St)) => next_file_id < MaxFiles
    /\ LET s == write_to_log(St, key, value, TRUE)
           active == s.files[Len(s.files)].data
           e == [v |-> value,
                 loc |-> (Len(s.files) - 1) * max_size
                          + Bytes(active) - Bytes(Record(key, value))]
       IN  /\ files' = s.files
           /\ next_file_id' = s.next_file_id
           /\ map' = s.map
           /\ dataLog' = s.log
           /\ hist' = [hist EXCEPT ![key] = IF key \in confirmed THEN <<e>>
                                            ELSE Append(@, e)]
    /\ confirmed' = confirmed \ {key}
    /\ orphans' = orphans \ {key}
    /\ clean' = FALSE
    /\ nputs' = nputs + 1
    /\ op' = "put"
    /\ ret' = NoRet
    /\ ever' = [ever EXCEPT !.put = @ \cup {<<key, value>>}]
    /\ UNCHANGED <<storage_, up, fsyncOk, nrestarts, snap, bytesBefore, scanned, scanTrace, vo, srv>>
    /\ UNCHANGED threadVars

\* handle_put_number: storage_.put(key, offset), which appends to data.log
PutNumber(key, value) ==
    /\ up
    /\ nputs < MaxPuts
    /\ LET p == put(storage_, dataLog, key, value, TRUE)
       IN  storage_' = p.ps /\ dataLog' = p.log
    /\ nputs' = nputs + 1
    /\ op' = "put_number"
    /\ ret' = NoRet
    /\ ever' = [ever EXCEPT !.number = @ \cup {<<key, value>>}]
    /\ UNCHANGED <<files, map, next_file_id, up, fsyncOk, nrestarts, hist, confirmed,
                   clean, snap, bytesBefore, orphans, scanned, scanTrace, vo, srv>>
    /\ UNCHANGED threadVars

\* Storage::get(key, &value)
Get(key) ==
    /\ up
    /\ ret' = get(St, key)
    /\ op' = "get"
    /\ UNCHANGED <<files, dataLog, map, storage_, next_file_id, up, fsyncOk, nputs,
                   nrestarts, hist, confirmed, clean, snap, bytesBefore, orphans, scanned, scanTrace, vo, srv, ever>>
    /\ UNCHANGED threadVars

\* Storage::sync: map.sync() (fsync of data.log, then the drain), fsync(fd).
\* okLog, okSeg: what the two fsync calls report; neither result is read.
Sync(okLog, okSeg) ==
    /\ up
    /\ dataLog' = fsync(dataLog, okLog)
    /\ map' = sync_drain(map)
    /\ files' = [files EXCEPT ![next_file_id] = fsync(@, okSeg)]
    /\ fsyncOk' = (okLog /\ okSeg)
    /\ confirmed' = IF okLog /\ okSeg THEN {k \in Keys : hist[k] # <<>>} ELSE confirmed
    /\ clean' = (clean \/ (okLog /\ okSeg))
    /\ op' = "sync"
    /\ ret' = NoRet
    /\ UNCHANGED <<storage_, next_file_id, up, nputs, nrestarts, hist, snap, bytesBefore,
                   orphans, scanned, scanTrace, vo, srv, ever>>
    /\ UNCHANGED threadVars

TakeSnap ==
    IF clean THEN [get |-> [k \in Keys |-> get(St, k)],
                   find |-> [k \in Keys |-> find(map, k)],
                   taken |-> TRUE]
    ELSE NoSnap

\* the process is gone: what was in memory is lost
Down ==
    /\ up' = FALSE
    /\ map' = NoMap
    /\ storage_' = NoMap
    /\ next_file_id' = 0
    /\ snap' = TakeSnap
    /\ bytesBefore' = TotalBytes(files')
    /\ nrestarts' = nrestarts + 1
    /\ hist' = [k \in Keys |-> <<>>]
    /\ confirmed' = {}
    /\ clean' = FALSE
    /\ orphans' = {}
    /\ ret' = NoRet
    /\ fsyncOk' = TRUE
    /\ scanTrace' = {}
    /\ UNCHANGED <<nputs, scanned, vo, srv, ever>>
    /\ UNCHANGED threadVars

\* main returns: ~PersistentStorage of storage_ rewrites data.log, then
\* ~Storage (fsync(fd), fclose(file)) and ~PersistentStorage of map
\* (fclose(file), data.log rewritten from _storage in iteration order)
Shutdown(order) ==
    /\ up
    /\ nrestarts < MaxRestarts
    /\ files' = [files EXCEPT ![next_file_id] = fsync(@, TRUE)]
    /\ dataLog' = rewrite(map._storage, order)
    /\ op' = "shutdown"
    /\ Down

\* the machine goes down without the destructors: of each file at least the
\* durable prefix is left.  keep: the segment files whose written bytes all
\* reached the disk; n: the characters of data.log that did.
Crash(keep, n) ==
    /\ up
    /\ nrestarts < MaxRestarts
    /\ files' = [i \in 1..Len(files) |->
                    IF i \in keep THEN files[i]
                    ELSE [data |-> SubSeq(files[i].data, 1, files[i].synced),
                          synced |-> files[i].synced]]
    /\ dataLog' = [data |-> SubSeq(dataLog.data, 1, n), synced |-> dataLog.synced]
    /\ op' = "crash"
    /\ Down

\* the constructors of main: Storage storage (PersistentStorage of map, then
\* Storage::load_from_disk), then PersistentStorage storage_, which reads and
\* rewrites the same data.log.  order, order2: the iteration orders of
\* _storage in the two rewrites of data.log.
Startup(clobber) ==
    /\ ~up
    /\ Len(files) < MaxFiles
    /\ \E m \in {load_from_disk_map(dataLog)} : \E order \in Orders(DOMAIN m) :
       \E s \in {load_from_disk([files |-> files, next_file_id |-> 0,
                                 map |-> [_storage |-> m, not_confirmed |-> <<>>],
                                 log |-> rewrite(m, order), trace |-> {}],
                                TRUE, clobber)} :
       \E m2 \in {load_from_disk_map(s.log)} :
           /\ files' = s.files
           /\ next_file_id' = s.next_file_id
           /\ map' = s.map
           /\ storage_' = [_storage |-> m2, not_confirmed |-> <<>>]
           /\ \E order2 \in Orders(DOMAIN m2) : dataLog' = rewrite(m2, order2)
           /\ orphans' = {k \in Keys : /\ k \notin DOMAIN m
                                       /\ \E i \in 1..Len(files) : k \in KeysIn(files[i].data, 1)}
           /\ clean' = (snap.taken /\ s.map.not_confirmed = <<>>)
           /\ scanTrace' = s.trace
    /\ scanned' = Len(files)
    /\ up' = TRUE
    /\ op' = "startup"
    /\ UNCHANGED <<ret, fsyncOk, nputs, nrestarts, hist, confirmed, snap, bytesBefore, vo, srv, ever>>
    /\ UNCHANGED threadVars

Next ==
    \/ \E key \in Keys, value \in Values : Put(key, value)
    \/ \E key \in Keys, value \in Locs : PutNumber(key, value)
    \/ \E key \in Keys : Get(key)
    \/ \E okLog \in BOOLEAN, okSeg \in BOOLEAN : Sync(okLog, okSeg)
    \/ \E order \in Orders(DOMAIN map._storage) : Shutdown(order)
    \/ \E keep \in SUBSET {i \in 1..Len(files) : files[i].synced < Len(files[i].data)} : \E n \in dataLog.synced..Len(dataLog.data) :
            Crash(keep, n)
    \/ \E clobber \in BOOLEAN : Startup(clobber)

Spec == Init /\ [][Next]_vars

\* --------------------- the key index under request threads and a sync thread
\* A thread is between the statements of PersistentStorage::write_to_disk and
\* PersistentStorage::sync; what runs under std::lock_guard is one step.  The
\* fprintf and the fsync succeed here.

\* write_to_disk up to fflush(file): the record is in data.log
PutWrite(t, key, value) ==
    /\ pcPut[t] = "idle"
    /\ nputs < MaxPuts
    /\ dataLog' = fprintf(dataLog, key, value)
    /\ pcPut' = [pcPut EXCEPT ![t] = "written"]
    /\ argPut' = [argPut EXCEPT ![t] = <<key, value, Len(dataLog'.data)>>]
    /\ nputs' = nputs + 1
    /\ op' = "put"
    /\ UNCHANGED <<map, ret, pcSync, pendPos, visPos>>
    /\ UNCHANGED readerVars
    /\ UNCHANGED engineVars

\* put whose fprintf writes only the first n characters of the record:
\* write_to_disk returns false without pushing, put returns
PutFail(t, key, value, n) ==
    /\ pcPut[t] = "idle"
    /\ nputs < MaxPuts
    /\ LET p == put(map, dataLog, key, value, FALSE)
       IN  /\ map' = p.ps
           /\ dataLog' = [p.log EXCEPT !.data = @ \o SubSeq(to_write(key, value), 1, n)]
           /\ ret' = p.res
    /\ nputs' = nputs + 1
    /\ op' = "put_failed"
    /\ UNCHANGED <<pcPut, argPut, pcSync, pendPos, visPos>>
    /\ UNCHANGED readerVars
    /\ UNCHANGED engineVars

\* write_to_disk: lock_guard, not_confirmed.push, return true
PutEnqueue(t) ==
    /\ pcPut[t] = "written"
    /\ map' = push(map, argPut[t][1], argPut[t][2])
    /\ pendPos' = Append(pendPos, argPut[t][3])
    /\ pcPut' = [pcPut EXCEPT ![t] = "idle"]
    /\ argPut' = [argPut EXCEPT ![t] = <<>>]
    /\ op' = "enqueue"
    /\ UNCHANGED <<dataLog, ret, nputs, pcSync, visPos>>
    /\ UNCHANGED readerVars
    /\ UNCHANGED engineVars

\* sync: fsync(fd)
SyncFsync ==
    /\ pcSync = "idle"
    /\ dataLog' = fsync(dataLog, TRUE)
    /\ pcSync' = "fsynced"
    /\ op' = "fsync"
    /\ UNCHANGED <<map, ret, nputs, pcPut, argPut, pendPos, visPos>>
    /\ UNCHANGED readerVars
    /\ UNCHANGED engineVars

\* sync: lock_guard, the drain loop
SyncDrain ==
    /\ pcSync = "fsynced"
    /\ map' = sync_drain(map)
    /\ visPos' = drain(visPos, [i \in 1..Len(pendPos) |-> <<map.not_confirmed[i][1], pendPos[i]>>])
    /\ pendPos' = <<>>
    /\ pcSync' = "idle"
    /\ ptrGet' = [ptrGet EXCEPT !.written = @ \/ (pcGet = "found" /\ Pending(ptrGet.key))]
    /\ op' = "sync"
    /\ UNCHANGED <<dataLog, ret, nputs, pcPut, argPut, pcGet>>
    /\ UNCHANGED engineVars

\* Storage::get: offset = map.find(key), which locks, looks the key up and
\* returns the address of the slot (or nullptr: get returns false)
GetFind(key) ==
    /\ pcGet = "idle"
    /\ IF find(map, key) = nullptr
       THEN pcGet' = "idle" /\ ptrGet' = NoPtr /\ ret' = NotFound
       ELSE /\ pcGet' = "found"
            /\ ptrGet' = [key |-> key, seen |-> find(map, key), written |-> FALSE]
            /\ ret' = NoRet
    /\ op' = "find"
    /\ UNCHANGED <<map, dataLog, nputs, pcPut, argPut, pcSync, pendPos, visPos>>
    /\ UNCHANGED engineVars

\* Storage::get: *offset, read without the lock.  If sync stored another
\* value into the slot after find released the lock, the read races with
\* that store: it yields the old value, the new one or a mix of the two (Torn).
GetDeref(v) ==
    /\ pcGet = "found"
    /\ v \in IF ptrGet.written /\ ptrGet.seen # find(map, ptrGet.key)
             THEN {<<"offset", ptrGet.seen>>, <<"offset", find(map, ptrGet.key)>>, Torn}
             ELSE {<<"offset", find(map, ptrGet.key)>>}
    /\ ret' = v
    /\ pcGet' = "idle"
    /\ ptrGet' = NoPtr
    /\ op' = "deref"
    /\ UNCHANGED <<map, dataLog, nputs, pcPut, argPut, pcSync, pendPos, visPos>>
    /\ UNCHANGED engineVars

NextThreads ==
    \/ \E t \in Threads, key \in Keys, value \in Locs : PutWrite(t, key, value)
    \/ \E t \in Threads, key \in Keys, value \in Locs :
            \E n \in 0..(Len(to_write(key, value)) - 1) : PutFail(t, key, value, n)
    \/ \E t \in Threads : PutEnqueue(t)
    \/ SyncFsync
    \/ SyncDrain
    \/ \E key \in Keys : GetFind(key)
    \/ \E v \in {<<"offset", n>> : n \in 0..MaxLoc} \cup {Torn} : GetDeref(v)

SpecThreads == Init /\ [][NextThreads]_vars

\* ----------------------------- the value log under concurrent callers of put
\* Storage holds no lock: a caller is between the statements of
\* Storage::write_to_log.  Each stdio call is one step (a FILE is locked for
\* the duration of a call); the index's fprintf and the fsyncs succeed here.
writerFrame == <<storage_, up, ret, fsyncOk, nrestarts, hist, confirmed, clean, snap,
                 bytesBefore, orphans, scanned, scanTrace, pcSync, pendPos, visPos,
                 pcGet, ptrGet, vo, srv, ever>>

\* write_to_log up to the rotation: ftell, if (offset >= max_size) open_new_file
WBegin(t, key, value) ==
    /\ up
    /\ pcPut[t] = "idle"
    /\ nputs < MaxPuts
    /\ NeedsRotation(ftell(St)) => next_file_id < MaxFiles
    /\ LET rot == NeedsRotation(ftell(St))
           s1 == IF rot THEN open_new_file(St) ELSE St
       IN  /\ files' = s1.files
           /\ next_file_id' = s1.next_file_id
           /\ argPut' = [argPut EXCEPT ![t] = <<key, value, IF rot THEN 0 ELSE ftell(St)>>]
    /\ pcPut' = [pcPut EXCEPT ![t] = "key_size"]
    /\ nputs' = nputs + 1
    /\ op' = "put"
    /\ UNCHANGED <<map, dataLog>>
    /\ UNCHANGED writerFrame

\* the next of the four fwrite calls of write_to_log, at the position of file
Fwrite(t) ==
    /\ pcPut[t] \in {"key_size", "key", "value_size", "value"}
    /\ LET key == argPut[t][1]
           value == argPut[t][2]
           chunk == CASE pcPut[t] = "key_size" -> <<LenCell(Len(key))>>
                      [] pcPut[t] = "key" -> ToCells(key)
                      [] pcPut[t] = "value_size" -> <<LenCell(Len(value))>>
                      [] pcPut[t] = "value" -> ToCells(value)
           nxt == CASE pcPut[t] = "key_size" -> "key"
                    [] pcPut[t] = "key" -> "value_size"
                    [] pcPut[t] = "value_size" -> "value"
                    [] pcPut[t] = "value" -> "index"
       IN  /\ files' = [files EXCEPT ![next_file_id].data = @ \o chunk]
           /\ pcPut' = [pcPut EXCEPT ![t] = nxt]
    /\ op' = "fwrite"
    /\ UNCHANGED <<map, dataLog, next_file_id, nputs, argPut>>
    /\ UNCHANGED writerFrame

\* fflush(file); map.put(key, (next_file_id - 1) * max_size + offset)
WIndex(t) ==
    /\ pcPut[t] = "index"
    /\ LET p == put(map, dataLog, argPut[t][1],
                    VirtualOffset(next_file_id, argPut[t][3]), TRUE)
       IN  map' = p.ps /\ dataLog' = p.log
    /\ pcPut' = [pcPut EXCEPT ![t] = "idle"]
    /\ argPut' = [argPut EXCEPT ![t] = <<>>]
    /\ op' = "indexed"
    /\ UNCHANGED <<files, next_file_id, nputs>>
    /\ UNCHANGED writerFrame

NextWriters ==
    \/ \E t \in Threads, key \in Keys, value \in Values : WBegin(t, key, value)
    \/ \E t \in Threads : Fwrite(t)
    \/ \E t \in Threads : WIndex(t)

SpecWriters == Init /\ [][NextWriters]_vars

\* ------------------------- the server: the request thread and the sync thread
\* main handles the requests of a connection on the epoll thread, under
\* state_output_queue_mutex; put_requests_thread calls storage.sync() and then,
\* under the same mutex, moves the queued responses to the output queue.  A
\* handler and the move are one step each; storage.sync() is one step.  A
\* response is written here as the request it answers: <<type, key, location>>.
serverFrame == <<up, fsyncOk, nrestarts, hist, confirmed, clean, snap, bytesBefore,
                 orphans, scanned, scanTrace, vo>>

\* handle_put: storage.put(key, value), then the response is pushed to
\* states_put_requests[fd]
HandlePut(key, value) ==
    /\ nputs < MaxPuts
    /\ NeedsRotation(ftell(St)) => next_file_id < MaxFiles
    /\ \E s \in {write_to_log(St, key, value, TRUE)} :
          /\ files' = s.files
          /\ next_file_id' = s.next_file_id
          /\ map' = s.map
          /\ dataLog' = s.log
          /\ srv' = [srv EXCEPT !.key = key,
                                !.q = Append(@, <<"put", key,
                                                 s.map.not_confirmed[Len(s.map.not_confirmed)][2]>>)]
    /\ ever' = [ever EXCEPT !.put = @ \cup {<<key, value>>}]
    /\ nputs' = nputs + 1
    /\ op' = "put"
    /\ ret' = NoRet
    /\ UNCHANGED storage_
    /\ UNCHANGED serverFrame
    /\ UNCHANGED threadVars

\* handle_put_number: storage_.put(key, offset), then the response is pushed
HandlePutNumber(key, value) ==
    /\ nputs < MaxPuts
    /\ LET p == put(storage_, dataLog, key, value, TRUE)
       IN  storage_' = p.ps /\ dataLog' = p.log
    /\ srv' = [srv EXCEPT !.key = key, !.q = Append(@, <<"put_number", key, value>>)]
    /\ ever' = [ever EXCEPT !.number = @ \cup {<<key, value>>}]
    /\ nputs' = nputs + 1
    /\ op' = "put_number"
    /\ ret' = NoRet
    /\ UNCHANGED <<files, map, next_file_id>>
    /\ UNCHANGED serverFrame
    /\ UNCHANGED threadVars

\* handle_get: storage.get(key, &ret); the response is returned at once
HandleGet(key) ==
    /\ ret' = get(St, key)
    /\ srv' = [srv EXCEPT !.key = key]
    /\ op' = "get"
    /\ UNCHANGED <<files, dataLog, map, storage_, next_file_id, nputs, ever>>
    /\ UNCHANGED serverFrame
    /\ UNCHANGED threadVars

\* handle_get_number: storage_.find(key); the response carries *p if p is set
HandleGetNumber(key) ==
    /\ ret' = IF find(storage_, key) = nullptr THEN NotFound
              ELSE <<"offset", find(storage_, key)>>
    /\ srv' = [srv EXCEPT !.key = key]
    /\ op' = "get_number"
    /\ UNCHANGED <<files, dataLog, map, storage_, next_file_id, nputs, ever>>
    /\ UNCHANGED serverFrame
    /\ UNCHANGED threadVars

\* put_requests_thread: storage.sync()
ServerSync(okLog, okSeg) ==
    /\ srv.pc = "sync"
    /\ dataLog' = fsync(dataLog, okLog)
    /\ map' = sync_drain(map)
    /\ files' = [files EXCEPT ![next_file_id] = fsync(@, okSeg)]
    /\ srv' = [srv EXCEPT !.pc = "flush"]
    /\ op' = "sync"
    /\ UNCHANGED <<storage_, next_file_id, nputs, ret, ever>>
    /\ UNCHANGED serverFrame
    /\ UNCHANGED threadVars

\* put_requests_thread: the loop that moves the queued responses to
\* state->output_queue and calls process_output, then the sleep
ServerFlush ==
    /\ srv.pc = "flush"
    /\ srv' = [srv EXCEPT !.pc = "sync", !.out = @ \o srv.q, !.q = <<>>]
    /\ op' = "flush"
    /\ UNCHANGED <<files, dataLog, map, storage_, next_file_id, nputs, ret, ever>>
    /\ UNCHANGED serverFrame
    /\ UNCHANGED threadVars

NextServer ==
    \/ \E key \in Keys, value \in Values : HandlePut(key, value)
    \/ \E key \in Keys, value \in Locs : HandlePutNumber(key, value)
    \/ \E key \in Keys : HandleGet(key)
    \/ \E key \in Keys : HandleGetNumber(key)
    \/ \E okLog \in BOOLEAN, okSeg \in BOOLEAN : ServerSync(okLog, okSeg)
    \/ ServerFlush

SpecServer == Init /\ [][NextServer]_vars

\* the sync thread is scheduled again and again, and requests that arrived
\* are handled
FairServer ==
    /\ WF_vars(\E okLog \in BOOLEAN, okSeg \in BOOLEAN : ServerSync(okLog, okSeg))
    /\ WF_vars(ServerFlush)
    /\ \A key \in Keys : SF_vars(HandleGetNumber(key))

SpecServerFair == SpecServer /\ FairServer

\* ------------------------------------------- the arithmetic of virtual offsets
\* int is 32 bits wide and max_size is 1024 * 1024 * 32, so INT_MAX + 1 is
\* IntSegments times max_size; the widths are scaled with max_size so that
\* this ratio, UINT_MAX + 1 = 2 * (INT_MAX + 1) and 2^64 = (UINT_MAX + 1)^2 stay.
IntSegments == 64
INT_MAX == IntSegments * max_size - 1
UINT64_MOD == (2 * (INT_MAX + 1)) * (2 * (INT_MAX + 1))
\* segment ids looked at
MaxSegment == 65

\* the int a 32-bit multiplication leaves when the product does not fit
WrapInt(x) == ((x + INT_MAX + 1) % (2 * (INT_MAX + 1))) - (INT_MAX + 1)
\* conversion of an int to uint64_t
ToU64(x) == x % UINT64_MOD

\* (next_file_id - 1) * max_size + offset of write_to_log: the product is an
\* int multiplication; where it overflows (undefined) the build either wraps
\* it to 32 bits or, the conversion to uint64_t following, multiplies in 64.
StoredOffset(nfid, offset, wraps) ==
    IF (nfid - 1) * max_size <= INT_MAX \/ ~wraps
    THEN VirtualOffset(nfid, offset)
    ELSE ToU64(ToU64(WrapInt((nfid - 1) * max_size)) + offset)

\* offset / max_size and offset % max_size of get_from_log, in uint64_t
DecodedOffset(stored) == <<stored \div max_size, stored % max_size>>

InitOffsets ==
    /\ InitEngine
    /\ \E seg \in 0..MaxSegment, off \in 0..(max_size - 1) :
          vo = [NoVo EXCEPT !.seg = seg, !.off = off]

\* write_to_log computes the virtual offset of a record in segment vo.seg
Encode(wraps) ==
    /\ vo.stored = nullptr
    /\ vo' = [vo EXCEPT !.stored = StoredOffset(vo.seg + 1, vo.off, wraps)]
    /\ op' = "encode"
    /\ UNCHANGED <<files, dataLog, map, storage_, next_file_id, up, ret, fsyncOk, nputs,
                   nrestarts, hist, confirmed, clean, snap, bytesBefore, orphans,
                   scanned, scanTrace, srv, ever>>
    /\ UNCHANGED threadVars

\* get_from_log splits it again
Decode ==
    /\ vo.stored # nullptr
    /\ vo.decoded = <<>>
    /\ vo' = [vo EXCEPT !.decoded = DecodedOffset(vo.stored)]
    /\ op' = "decode"
    /\ UNCHANGED <<files, dataLog, map, storage_, next_file_id, up, ret, fsyncOk, nputs,
                   nrestarts, hist, confirmed, clean, snap, bytesBefore, orphans,
                   scanned, scanTrace, srv, ever>>
    /\ UNCHANGED threadVars

NextOffsets ==
    \/ \E wraps \in BOOLEAN : Encode(wraps)
    \/ Decode

SpecOffsets == InitOffsets /\ [][NextOffsets]_vars

\* ------------------------------------------------------------- properties
LastPut(k) == hist[k][Len(hist[k])]

\* C1: once put(k, v) has completed and a later sync has completed
\* successfully, with no other put for k in between, find(k) returns the
\* location of the record that put wrote and get(k) returns v.
C1_DurabilityGate ==
    up => \A k \in confirmed :
            /\ find(map, k) = LastPut(k).loc
            /\ get(St, k) = LastPut(k).v

C1_Witness ==
    /\ op = "sync" /\ fsyncOk
    /\ \E k \in confirmed : find(map, k) = LastPut(k).loc /\ get(St, k) \in Values

\* C2: a put of the key index leaves the authoritative map as it was, so find
\* returns after any number of puts what it returned before them; while the
\* process runs only sync changes the authoritative map.
C2_PutFrame ==
    [][/\ op' = "put" => map'._storage = map._storage
       /\ (up /\ up' /\ map'._storage # map._storage) => op' = "sync"]_vars

\* a put is pending for a key whose confirmed location is another one
C2_Witness ==
    /\ op = "put"
    /\ \E i \in 1..Len(map.not_confirmed) :
          LET k == map.not_confirmed[i][1]
          IN  find(map, k) # nullptr /\ find(map, k) # map.not_confirmed[i][2]

\* C3: after put(k, v1), put(k, v2), sync, a get(k) returns v2 and not v1.
C3_LastWriteWins ==
    up => \A k \in confirmed :
            Len(hist[k]) >= 2 =>
                /\ get(St, k) = LastPut(k).v
                /\ \A i \in 1..(Len(hist[k]) - 1) :
                      hist[k][i].v # LastPut(k).v => get(St, k) # hist[k][i].v

C3_Witness ==
    /\ op = "sync"
    /\ \E k \in confirmed :
          Len(hist[k]) >= 2 /\ hist[k][1].v # hist[k][2].v /\ get(St, k) = hist[k][2].v

\* C5 as stated: after puts followed by a successful sync, a restart (shutdown
\* or crash, then the recovery) leaves get(k) returning for every key what it
\* returned before the restart.
C5_RestartPreservesGet ==
    (op = "startup" /\ snap.taken) => \A k \in Keys : get(St, k) = snap.get[k]

\* C6 as stated: after a restart find(k) returns the last confirmed location
\* of every key that was put and confirmed by sync.
C6_SnapshotRoundTrip ==
    (op = "startup" /\ snap.taken) =>
        \A k \in Keys : snap.find[k] # nullptr => find(map, k) = snap.find[k]

\* C7: no record is appended to a segment whose bytes have reached max_size
\* (the put that finds it full opens a new segment), and after sync get
\* returns the value last put for the keys whose record lies in a segment
\* written before the rotation as for those written after it.
C7_Rotation ==
    /\ \A i \in 1..Len(files) : \A o \in RecordStarts(files[i].data, 1) : o < max_size
    /\ up => \A k \in confirmed :
                LET r == ReadAt(files[(LastPut(k).loc \div max_size) + 1].data,
                                CellIndex(files[(LastPut(k).loc \div max_size) + 1].data,
                                          LastPut(k).loc % max_size))
                IN  r.ok /\ r.key = k /\ get(St, k) = r.value /\ r.value = LastPut(k).v

\* two confirmed keys, one in a rotated-out segment and one in the active one
C7_Witness ==
    /\ op = "sync"
    /\ \E k1 \in confirmed, k2 \in confirmed :
          /\ LastPut(k1).loc \div max_size < LastPut(k2).loc \div max_size
          /\ LastPut(k2).loc \div max_size = next_file_id - 1
          /\ get(St, k1) = LastPut(k1).v
          /\ get(St, k2) = LastPut(k2).v

\* C8 as stated: a sync whose fsync reports failure does not return: the
\* engine is terminated and nothing is moved from pending to authoritative.
C8_FatalFlush ==
    [][(op' = "sync" /\ ~fsyncOk') => (~up' /\ map'._storage = map._storage)]_vars

\* C9: a record that recovery finds in an old segment under a key without
\* index entry is not appended to a new segment and not indexed: get for the
\* key returns not-found after the recovery and after any later sync.
C9_OrphanSkip ==
    up => \A k \in orphans :
            /\ get(St, k) = NotFound
            /\ ~Pending(k)
            /\ \A i \in (scanned + 1)..Len(files) : k \notin KeysIn(files[i].data, 1)

C9_Witness == up /\ op = "sync" /\ orphans # {}

\* C10 as stated, for the restarts that follow puts and a successful sync:
\* after the recovery pass the segment files hold no more bytes than they
\* held before the restart.
C10_BytesNotGrown ==
    (op = "startup" /\ snap.taken) => TotalBytes(files) <= bytesBefore

\* C11 as stated: a put whose write to data.log fails hands its caller a
\* result (the boolean false) rather than nothing, enqueues nothing and leaves
\* the authoritative map alone.
C11_FailedPutReported ==
    [][op' = "put_failed" =>
          /\ ret' # NoRet
          /\ map'.not_confirmed = map.not_confirmed
          /\ map'._storage = map._storage]_vars

\* the record (key, value) stands in a segment the last recovery created
Reappended(key, value) ==
    \E j \in (scanned + 1)..Len(files) :
        \E o \in RecordStarts(files[j].data, 1) :
            LET r == ReadAt(files[j].data, CellIndex(files[j].data, o))
            IN  r.key = key /\ r.value = value

\* the index addresses the record that starts at byte o of scanned segment i
Live(i, o) ==
    LET r == ReadAt(files[i].data, CellIndex(files[i].data, o))
    IN  /\ r.key \in DOMAIN map._storage
        /\ map._storage[r.key] = (i - 1) * max_size + o

\* C12 as stated: the recovery appends again every record of a scanned
\* segment i whose key the index maps to i*max_size + o, o being the byte at
\* which the record starts, and no record of a key that has no such record.
C12_LiveReappended ==
    (up /\ op = "startup") =>
        \A i \in 1..scanned : \A o \in RecordStarts(files[i].data, 1) :
            LET r == ReadAt(files[i].data, CellIndex(files[i].data, o))
            IN  r.key \in DOMAIN map._storage =>
                  /\ Live(i, o) => Reappended(r.key, r.value)
                  /\ (\A i2 \in 1..scanned : \A o2 \in RecordStarts(files[i2].data, 1) :
                         ReadAt(files[i2].data, CellIndex(files[i2].data, o2)).key = r.key
                             => ~Live(i2, o2))
                       => \A v \in Values : ~Reappended(r.key, v)

\* C13 as stated: the running offset the recovery uses for a record it
\* decodes is the byte at which that record starts in its segment file.
C13_RunningOffset ==
    (up /\ op = "startup") => \A e \in scanTrace : e[3] = e[2]

\* the record at virtual offset loc lies in the part of its segment file
\* that an fsync covered
DurableRecord(loc) ==
    LET f == (loc \div max_size) + 1
        idx == IF f <= Len(files) THEN CellIndex(files[f].data, loc % max_size) ELSE 0
        r == IF f <= Len(files) THEN ReadAt(files[f].data, idx) ELSE [ok |-> FALSE]
    IN  f <= Len(files) /\ r.ok /\ r.next - 1 <= files[f].synced

\* C14 as stated: once a sync whose fsyncs succeeded has returned, the record
\* that the index addresses for a key confirmed by it is durable in its
\* segment file, also when a rotation closed that segment before the sync.
C14_DurableRecords ==
    up => \A k \in confirmed : find(map, k) # nullptr /\ DurableRecord(find(map, k))

\* fopen((filename + std::to_string(i - 1)).c_str(), "r") finds the file
Exists(fs, i) == i \in DOMAIN fs

\* C15 as stated: after the recovery every segment file it found, except the
\* most recent of them, is gone from the disk.
C15_OldSegmentsDeleted ==
    (up /\ op = "startup") => \A i \in 1..(scanned - 1) : ~Exists(files, i)

\* the cell after the last record that a read of the segment from cell idx
\* on decodes
RECURSIVE DecodeEnd(_, _)
DecodeEnd(cells, idx) ==
    LET r == ReadAt(cells, idx)
    IN  IF r.ok THEN DecodeEnd(cells, r.next) ELSE idx

\* C16 as stated: whenever no put is under way, every segment read from its
\* start decodes into whole records up to its end, and every pending index
\* entry addresses the start of a record of its key.
C16_AppendsSerialized ==
    (\A t \in Threads : pcPut[t] = "idle") =>
        /\ \A i \in 1..Len(files) : DecodeEnd(files[i].data, 1) = Len(files[i].data) + 1
        /\ \A e \in 1..Len(map.not_confirmed) :
              LET loc == map.not_confirmed[e][2]
                  f == (loc \div max_size) + 1
                  r == ReadAt(files[f].data, CellIndex(files[f].data, loc % max_size))
              IN  r.ok /\ r.key = map.not_confirmed[e][1]

\* C17 as stated: the location get works with was read while the index lock
\* was held, so it is the value find saw under the lock and never a torn one.
C17_ReadUnderLock ==
    [][op' = "deref" => ret' = <<"offset", ptrGet.seen>>]_vars

\* C18 as stated: what get computes from the virtual offset put stored is
\* the segment id and the byte offset put had, for every segment id.
C18_OffsetRoundTrip ==
    vo.decoded # <<>> => vo.decoded = <<vo.seg, vo.off>>

\* the value of the newest pending write of k
LastPending(k) ==
    LET q == map.not_confirmed
        i == CHOOSE i \in 1..Len(q) :
                 q[i][1] = k /\ \A j \in (i + 1)..Len(q) : q[j][1] # k
    IN  q[i][2]

\* C19: a sync of the key index whose fsync succeeded, with no put running
\* beside it, leaves pending empty, every key that had a pending write mapped
\* in authoritative to the location of its last enqueued pending write, and
\* every other key where it was.
C19_SyncDrainsFifo ==
    [][(op' = "sync" /\ dataLog'.synced = Len(dataLog'.data)) =>
          /\ map'.not_confirmed = <<>>
          /\ \A k \in DOMAIN map._storage \cup DOMAIN map'._storage
                       \cup {map.not_confirmed[i][1] : i \in 1..Len(map.not_confirmed)} :
                IF Pending(k) THEN find(map', k) = LastPending(k)
                ELSE find(map', k) = find(map, k)]_vars

\* a sync has drained two pending writes of one key with different locations
C19_Witness ==
    /\ op = "sync"
    /\ dataLog.synced = Len(dataLog.data)
    /\ map.not_confirmed = <<>>
    /\ \E k \in Keys :
          /\ Len(hist[k]) >= 2
          /\ hist[k][1].loc # hist[k][2].loc
          /\ find(map, k) = hist[k][2].loc

\* C20: put rotates exactly when the write offset at the start of the record
\* is at or beyond max_size; the virtual offset it stores in the index has a
\* byte offset below max_size and the id of the segment the record was
\* written to (next_file_id - 1), also when the record is longer than the
\* space left in the segment.
C20_RotationByStartOffset ==
    [][op' = "put" =>
          LET e == map'.not_confirmed[Len(map'.not_confirmed)]
              seg == next_file_id' - 1
              o == e[2] - seg * max_size
              r == ReadAt(files'[seg + 1].data, CellIndex(files'[seg + 1].data, o))
          IN  /\ (next_file_id' = next_file_id + 1) <=> (ftell(St) >= max_size)
              /\ next_file_id' \in {next_file_id, next_file_id + 1}
              /\ 0 <= o /\ o < max_size
              /\ o = (IF next_file_id' = next_file_id THEN ftell(St) ELSE 0)
              /\ r.ok /\ r.key = e[1]
              /\ Bytes(files'[seg + 1].data) = o + Bytes(Record(r.key, r.value))
              /\ \A i \in 1..Len(files) : i # seg + 1 => files'[i] = files[i]]_vars

\* a put wrote a record that starts below max_size and ends beyond it
C20_Witness ==
    /\ op = "put"
    /\ map.not_confirmed # <<>>
    /\ LET e == map.not_confirmed[Len(map.not_confirmed)]
       IN  /\ e[2] \div max_size = next_file_id - 1
           /\ e[2] % max_size > 0
           /\ Bytes(files[next_file_id].data) > max_size

\* the write a response in the queue or the output queue answers is pending
Unconfirmed(r) ==
    LET ps == IF r[1] = "put" THEN map ELSE storage_
    IN  \E i \in 1..Len(ps.not_confirmed) : ps.not_confirmed[i] = <<r[2], r[3]>>

\* C21 as stated: no response to a put or a put_number is in the connection's
\* output queue while the write it answers is still pending.
C21_AckAfterSync ==
    \A i \in 1..Len(srv.out) : ~Unconfirmed(srv.out[i])

\* the location of the put_number for k that was handled last, nullptr if none
LastNumber(k) ==
    LET rs == srv.out \o srv.q
        is == {i \in 1..Len(rs) : rs[i][1] = "put_number" /\ rs[i][2] = k}
    IN  IF is = {} THEN nullptr
        ELSE rs[CHOOSE i \in is : \A j \in is : j <= i][3]

\* the response to a put_number(k, n) is in the output queue
AckedNumber(k, n) ==
    \E i \in 1..Len(srv.out) : srv.out[i] = <<"put_number", k, n>>

\* C22 as stated: once put_number(k, n) is acknowledged, with the sync thread
\* running on, either a get_number(k) returns n or a later put_number for k
\* is issued.
C22_NumberEventuallyVisible ==
    \A k \in Keys, n \in Locs :
        (AckedNumber(k, n) /\ LastNumber(k) = n)
            ~> ((op = "get_number" /\ srv.key = k /\ ret = <<"offset", n>>) \/ LastNumber(k) # n)

\* C23 as stated: whatever puts, put_numbers, syncs and restarts came before,
\* get(k) returns nothing or a value some put(k, .) wrote, and get_number(k)
\* returns nothing or a location some put_number(k, .) wrote.
C23_IndexesIsolated ==
    up => /\ \A k \in Keys : get(St, k) = NotFound \/ <<k, get(St, k)>> \in ever.put
          /\ \A k \in Keys \cup DOMAIN storage_._storage :
                find(storage_, k) = nullptr \/ <<k, find(storage_, k)>> \in ever.number

\* the number of records in the text if it is a sequence of whole records of
\* write_to_disk with keys that operator>> reads back (not empty), else -1
RECURSIVE WholeRecords(_)
WholeRecords(txt) ==
    LET ws == {w \in {to_write(k, v) : k \in Keys \ {<<>>}, v \in Locs} :
                  Len(w) <= Len(txt) /\ SubSeq(txt, 1, Len(w)) = w}
        w == CHOOSE w \in ws : TRUE
        r == WholeRecords(SubSeq(txt, Len(w) + 1, Len(txt)))
    IN  IF txt = <<>> THEN 0
        ELSE IF ws = {} THEN -1
        ELSE IF r < 0 THEN -1 ELSE r + 1

\* no put and no sync is under way, nothing is pending, data.log is synced
Quiescent ==
    /\ \A t \in Threads : pcPut[t] = "idle"
    /\ pcSync = "idle"
    /\ map.not_confirmed = <<>>
    /\ dataLog.synced = Len(dataLog.data)

\* C24 as stated: at a quiescent point after a successful sync the
\* authoritative map is the map that replaying data.log in file order gives
\* (the last occurrence of a key wins), also after concurrent puts of one key.
\* Stated for the runs in which every put wrote its whole record.
C24_MapIsReplay ==
    (Quiescent /\ WholeRecords(dataLog.data) = nputs)
        => map._storage = load_from_disk_map(dataLog)

\* C4 as stated: whatever find returns has its record in the part of data.log
\* that an fsync made durable before the entry became visible.
C4_DurableBeforeVisible ==
    \A k \in DOMAIN map._storage : visPos[k] <= dataLog.synced

====
